---- MODULE Spec2Model ----
(***************************************************************************)
(* CAVEcanary: a model of the asynchronous canary (src/canary/__init__.py),*)
(* of the earlier synchronous canary (src/canary.py) and of the root id    *)
(* validation both share.                                                  *)
(*                                                                         *)
(*   Spec        the run loop of canary/__init__.py with its table tasks   *)
(*   SpecCheck   check_root_ids of canary/__init__.py on bounded frames    *)
(*   SpecLegacy  check_random_annotations of canary.py                     *)
(*   SpecVersions  construction and one run while versions are published   *)
(*   SpecDrift   the unbounded loop while the store and the versions change*)
(*   SpecLive    the unbounded loop under fair scheduling of its tasks     *)
(*   SpecMain    main.py: the canary thread and the /health endpoint       *)
(***************************************************************************)
EXTENDS Integers, Sequences, FiniteSets, TLC

\* ------------------------------------------------------------------ bounds
MaxIter == 1        \* largest iteration budget explored
MaxRows == 2        \* largest number of sampled rows in a data frame
MaxCount == 2       \* largest table row count (canary.py)
MaxSample == 2      \* largest configured sample size (canary.py)
MaxVersion == 2     \* largest materialization version published

\* ------------------------------------------------------- names and values
None == "None"
NoBudget == 0 - 1     \* iterations=None: run has no iteration budget
SUPERVOXEL_SUFFIX == "_supervoxel_id"
ROOT_SUFFIX == "_root_id"
LEGACY_ROOT_SUFFIX == "_rootid"
IdColumn == <<"id">>
Prefixes == <<"pre", "post">>
RootIds == {11, 22}

\* A column name is the sequence of its parts: "pre_root_id" is
\* <<"pre", "_root_id">>, so that endswith and prefix stripping are computed.
Column(prefix, suffix) == <<prefix, suffix>>

\* str.endswith(suffix)
EndsWith(col, suffix) == Len(col) > 1 /\ col[Len(col)] = suffix

\* supervoxel_col[: -len("_supervoxel_id")]
StripSuffix(col) == SubSeq(col, 1, Len(col) - 1)

\* f"{prefix}_root_id"
RootColumnOf(prefix, suffix) == Append(prefix, suffix)

Range(s) == {s[i] : i \in 1..Len(s)}

RECURSIVE Filter(_, _)
\* the sub-sequence of s whose elements are in the set keep, in order
Filter(s, keep) ==
    IF s = <<>> THEN <<>>
    ELSE IF s[1] \in keep THEN <<s[1]>> \o Filter(Tail(s), keep)
         ELSE Filter(Tail(s), keep)

\* [col for col in df.columns if col.endswith(suffix)]
ColumnsEnding(df, suffix) ==
    Filter(df.columns, {c \in Range(df.columns) : EndsWith(c, suffix)})

\* ------------------------------------------------------------ data frames
\* All columns a sampled table can carry, in table order.
AllColumns(rootSuffix) ==
    <<IdColumn,
      Column(Prefixes[1], SUPERVOXEL_SUFFIX), Column(Prefixes[1], rootSuffix),
      Column(Prefixes[2], SUPERVOXEL_SUFFIX), Column(Prefixes[2], rootSuffix)>>

\* The supervoxel id stored in row i of a supervoxel column.
SupervoxelAt(col, i) == IF col[1] = Prefixes[1] THEN i ELSE 3 + i

\* Data frames of n rows over the columns cols: the id column holds the row
\* ids, supervoxel columns the supervoxel ids, root id columns any root ids.
FramesOver(cols, n, rootSuffix) ==
    LET rootCols == {c \in Range(cols) : EndsWith(c, rootSuffix)}
    IN  {[columns |-> cols, n |-> n,
          val |-> [c \in Range(cols) |->
                     IF c \in rootCols THEN stored[c]
                     ELSE IF c = IdColumn THEN [i \in 1..n |-> i]
                     ELSE [i \in 1..n |-> SupervoxelAt(c, i)]]] :
         stored \in [rootCols -> [1..n -> RootIds]]}

Schemas(rootSuffix) ==
    LET all == AllColumns(rootSuffix)
    IN  {Filter(all, S \cup {IdColumn}) : S \in SUBSET (Range(all) \ {IdColumn})}

Frames(maxRows, rootSuffix) ==
    UNION {FramesOver(cols, n, rootSuffix) :
             cols \in Schemas(rootSuffix), n \in 0..maxRows}

\* df.empty: no rows or no columns
Empty(df) == df.n = 0 \/ df.columns = <<>>

\* ------------------------------------------------------------ environment
\* What one call of chat_postMessage does.
SlackOutcomes == {"ok", "SlackApiError", "OtherError"}

\* What the lookup of one column pair does: the version metadata lookup
\* fails, get_roots fails, or get_roots returns one root id per supervoxel.
LookupOutcomes(n) ==
    [kind : {"TimestampError", "ResolverError"}, roots : {<<>>}]
        \cup [kind : {"roots"}, roots : [1..n -> RootIds]]

\* The environment of one check_root_ids call: per supervoxel column, the
\* outcome of its lookup and of the notification it may post.
CheckEnvs(df) ==
    LET sv == Range(ColumnsEnding(df, SUPERVOXEL_SUFFIX))
    IN  [lookup : [sv -> LookupOutcomes(df.n)], slack : [sv -> SlackOutcomes]]

\* The sampled rows contain a mismatch: the resolver answers for a
\* supervoxel column that has a root id column, and some row's stored root
\* id is not the root the resolver returns for it.
SampleHasMismatch(df, env) ==
    \E sv \in Range(ColumnsEnding(df, SUPERVOXEL_SUFFIX)) :
        /\ RootColumnOf(StripSuffix(sv), ROOT_SUFFIX) \in Range(df.columns)
        /\ env.lookup[sv].kind = "roots"
        /\ \E i \in 1..df.n :
              df.val[RootColumnOf(StripSuffix(sv), ROOT_SUFFIX)][i] #
                  env.lookup[sv].roots[i]

\* ------------------------------------------------- send_slack_notification
\* TRUE iff send_slack_notification raises to its caller: chat_postMessage
\* is called in a try that catches SlackApiError alone.
SendRaises(outcome) == outcome \notin {"ok", "SlackApiError"}

\* ---------------------------------------------------------- check_root_ids
\* A slip in the comparison: the resolved roots are compared with the
\* supervoxel column of the pair instead of its root id column.
MismatchAgainstSupervoxels(df, rootCol, roots) ==
    [i \in 1..df.n |->
       df.val[Append(StripSuffix(rootCol), SUPERVOXEL_SUFFIX)][i] # roots[i]]

\* df[root_id_col].values != root_ids
Mismatch(df, rootCol, roots) == [i \in 1..df.n |-> df.val[rootCol][i] # roots[i]]

\* mismatch.any()
AnyTrue(mask) == \E i \in DOMAIN mask : mask[i]

\* the indices selected by a boolean mask, in order
RECURSIVE Masked(_, _)
Masked(mask, i) ==
    IF i > Len(mask) THEN <<>>
    ELSE IF mask[i] THEN <<i>> \o Masked(mask, i + 1) ELSE Masked(mask, i + 1)

\* A slip in the message: the resolved roots are reported unmasked, from
\* the first on, instead of root_ids[mismatch].
MismatchMessageUnmaskedRoots(df, table, rootCol, roots, mask) ==
    LET idx == Masked(mask, 1)
    IN  [kind |-> "mismatch", table |-> table, column |-> rootCol,
         rows |-> [k \in 1..Len(idx) |->
                     <<df.val[IdColumn][idx[k]], df.val[rootCol][idx[k]]>>],
         resolved |-> [k \in 1..Len(idx) |-> roots[k]]]

\* The notification built for one mismatched pair: bad_root_id_rows[["id",
\* root_id_col]] and root_ids[mismatch].
MismatchMessage(df, table, rootCol, roots, mask) ==
    LET idx == Masked(mask, 1)
    IN  [kind |-> "mismatch", table |-> table, column |-> rootCol,
         rows |-> [k \in 1..Len(idx) |->
                     <<df.val[IdColumn][idx[k]], df.val[rootCol][idx[k]]>>],
         resolved |-> [k \in 1..Len(idx) |-> roots[idx[k]]]]

\* The state of a check_root_ids call in progress.
CheckStart ==
    [errors_found |-> FALSE, raised |-> FALSE, posts |-> <<>>,
     lookups |-> <<>>, failed |-> <<>>, compared |-> <<>>]

\* One pass of the loop body for the supervoxel column svCol.
CheckPair(df, table, env, svCol, acc) ==
    LET prefix == StripSuffix(svCol)
        rootCol == RootColumnOf(prefix, ROOT_SUFFIX)
        out == env.lookup[svCol]
    IN  IF rootCol \notin Range(ColumnsEnding(df, ROOT_SUFFIX)) THEN acc
        ELSE IF out.kind = "TimestampError"
             THEN [acc EXCEPT !.failed = Append(@, svCol)]
        ELSE IF out.kind = "ResolverError"
             THEN [acc EXCEPT !.lookups = Append(@, svCol),
                              !.failed = Append(@, svCol)]
        ELSE LET mask == Mismatch(df, rootCol, out.roots)
                 looked == [acc EXCEPT !.lookups = Append(@, svCol),
                                       !.compared = Append(@, svCol)]
             IN  IF ~AnyTrue(mask) THEN looked
                 ELSE LET posted ==
                            [looked EXCEPT !.posts =
                               Append(@, MismatchMessage(df, table, rootCol, out.roots, mask))]
                      IN  IF SendRaises(env.slack[svCol])
                          THEN [posted EXCEPT !.raised = TRUE]
                          ELSE [posted EXCEPT !.errors_found = TRUE]

RECURSIVE CheckPairs(_, _, _, _, _)
\* for supervoxel_col in supervoxel_columns: ..., left to right, until the
\* columns are exhausted or an exception leaves the function.
CheckPairs(df, table, env, svCols, acc) ==
    IF svCols = <<>> \/ acc.raised THEN acc
    ELSE CheckPairs(df, table, env, Tail(svCols),
                    CheckPair(df, table, env, svCols[1], acc))

\* Canary.check_root_ids(df, table_name): errors_found is the value returned
\* unless raised; posts are the chat_postMessage calls made.
check_root_ids(df, table, env) ==
    CheckPairs(df, table, env, ColumnsEnding(df, SUPERVOXEL_SUFFIX), CheckStart)

\* ------------------------------------------- check_root_ids of canary.py
\* One pass of the loop body of canary.py's check_root_ids: a failed lookup
\* and a mismatch each post one notification, and nothing is returned.
LegacyCheckPair(df, env, svCol, acc) ==
    LET prefix == StripSuffix(svCol)
        rootCol == RootColumnOf(prefix, LEGACY_ROOT_SUFFIX)
        out == env.lookup[svCol]
        raises == SendRaises(env.slack[svCol])
    IN  IF rootCol \notin Range(ColumnsEnding(df, LEGACY_ROOT_SUFFIX)) THEN acc
        ELSE IF out.kind # "roots"
             THEN [acc EXCEPT
                     !.lookups = IF out.kind = "ResolverError"
                                 THEN Append(@, svCol) ELSE @,
                     !.failed = Append(@, svCol),
                     !.posts = Append(@, [kind |-> "error", column |-> svCol]),
                     !.raised = raises]
        ELSE LET mask == Mismatch(df, rootCol, out.roots)
                 looked == [acc EXCEPT !.lookups = Append(@, svCol),
                                       !.compared = Append(@, svCol)]
             IN  IF ~AnyTrue(mask) THEN looked
                 ELSE [looked EXCEPT
                         !.posts = Append(@, [kind |-> "mismatch", column |-> rootCol]),
                         !.raised = raises]

RECURSIVE LegacyCheckPairs(_, _, _, _)
LegacyCheckPairs(df, env, svCols, acc) ==
    IF svCols = <<>> \/ acc.raised THEN acc
    ELSE LegacyCheckPairs(df, env, Tail(svCols),
                          LegacyCheckPair(df, env, svCols[1], acc))

\* canary.py: Canary.check_root_ids(df)
legacy_check_root_ids(df, env) ==
    LegacyCheckPairs(df, env, ColumnsEnding(df, SUPERVOXEL_SUFFIX), CheckStart)

\* ------------------------------------------------- version resolution
\* A URI is the sequence of its parts with every "/" a part of its own:
\* "postgresql://db-host/annotation" is
\* <<"postgresql:", "/", "/", "db-host", "/", "annotation">>.
DefaultUris ==
    {<<"postgresql:", "/", "/", "db-host", "/", "annotation">>,
     <<"postgresql:", "/", "/", "db-host:5432", "/", "minnie65__mat1">>}
DatastackNames == {"minnie65", "v1dd"}

\* The positions of sep in s.
Positions(s, sep) == {i \in 1..Len(s) : s[i] = sep}

\* str.rpartition(sep)[0]: what precedes the last sep, "" when there is none.
RPartitionHead(s, sep) ==
    IF Positions(s, sep) = {}
    THEN <<>>
    ELSE SubSeq(s, 1, (CHOOSE i \in Positions(s, sep) :
                          \A j \in Positions(s, sep) : j <= i) - 1)

\* A slip in the choice of the version: min for max.
OldestVersion(versions) == CHOOSE v \in versions : \A w \in versions : v <= w

\* max(self.client.materialize.get_versions())
LatestVersion(versions) == CHOOSE v \in versions : \A w \in versions : w <= v

\* make_url(f"{sql_base_uri}/{self.datastack_name}__mat{latest_version}")
MatUri(uri, datastack, version) ==
    RPartitionHead(uri, "/") \o <<"/", datastack, "__mat", ToString(version)>>

\* The database an engine created from the URI connects to: the path of the
\* URI, what follows the "/" that ends the authority.
UrlDatabase(uri) ==
    LET slashes == Positions(uri, "/")
    IN  IF Cardinality(slashes) < 3
        THEN <<>>
        ELSE LET third == CHOOSE i \in slashes :
                            Cardinality({j \in slashes : j < i}) = 2
             IN  SubSeq(uri, third + 1, Len(uri))

\* ------------------------------------------------------------------ state
VARIABLES
    iterations,         \* run: the iteration budget, NoBudget when None
    iteration_count,    \* run: iterations finished
    runPc,              \* run: "start", "gather", "sleep", "done", "raised"
    annotation_tables,  \* run: the tables get_tables returned
    version_info,       \* run: the version metadata read before the loop
    background_tasks,   \* run: indices (in tasks) of the tasks gather awaits
    tasks,              \* every task created by loop.create_task, in order
    ctorPc,             \* Canary(): "new", "constructed" or "raised"
    default_uri,        \* config: DATABASE_URI
    datastack_name,     \* config: DATASTACK_NAME
    client_version,     \* self.client.materialize.version, 0 while unset
    database_uri,       \* self.database_uri
    runError,           \* run: the call that raised out of run
    passCap,            \* the number of passes of `while True` explored
    published,          \* resolver: the versions get_versions lists now
    storeTables,        \* store: the tables get_tables lists now
    mainPc,             \* main.py: run_canary is "running", in "except", "stopped"
    canary_thread_exception,    \* main.py: the threading.Event is set
    threadError,        \* main.py: the exception that ended the thread
    health,             \* main.py: the last /health response and when it was made
    legPc,          \* canary.py: position in check_random_annotations
    legN,           \* canary.py: config.NUM_SYNAPSES
    legTables,      \* canary.py: the tables get_tables returned
    legIdx,         \* canary.py: index of the table of the current pass
    legRows,        \* canary.py: num_rows of the current table
    legOffset,      \* canary.py: offset chosen for the current table
    legLog,         \* canary.py: per table, what the pass over it did
    legError,       \* canary.py: the exception that left the function
    chkPc,          \* SpecCheck: "ready" before the call, "returned" or "raised"
    chkDf,          \* SpecCheck: the data frame handed to check_root_ids
    chkEnv,         \* SpecCheck: the environment of that call
    chkResult       \* SpecCheck: the call, as far as it got

runVars == <<iterations, iteration_count, runPc, annotation_tables,
             version_info, background_tasks, tasks>>
legacyVars == <<legPc, legN, legTables, legIdx, legRows, legOffset, legLog,
                legError>>
checkVars == <<chkPc, chkDf, chkEnv, chkResult>>
canaryVars == <<ctorPc, default_uri, datastack_name, client_version,
                database_uri, runError, passCap>>
worldVars == <<published, storeTables>>
mainVars == <<mainPc, canary_thread_exception, threadError, health>>
vars == <<runVars, legacyVars, checkVars, canaryVars, worldVars, mainVars>>

\* The parts of the state a specification leaves alone.
RunIdle ==
    /\ iterations = NoBudget
    /\ iteration_count = 0
    /\ runPc = "idle"
    /\ annotation_tables = <<>>
    /\ version_info = [is_merged |-> TRUE, version |-> 0]
    /\ background_tasks = <<>>
    /\ tasks = <<>>
    /\ ctorPc = "idle"
    /\ default_uri = <<>>
    /\ datastack_name = None
    /\ client_version = 0
    /\ database_uri = <<>>
    /\ runError = None
    /\ passCap = 0
    /\ published = {}
    /\ storeTables = <<>>

MainIdle ==
    /\ mainPc = "idle"
    /\ canary_thread_exception = FALSE
    /\ threadError = None
    /\ health = [status |-> 0, thread |-> "none"]

LegacyIdle ==
    /\ legPc = "idle"
    /\ legN = 1
    /\ legTables = <<>>
    /\ legIdx = 0
    /\ legRows = 0
    /\ legOffset = 0
    /\ legLog = <<>>
    /\ legError = None

CheckIdle ==
    /\ chkPc = "idle"
    /\ chkDf = [columns |-> <<>>, n |-> 0, val |-> <<>>]
    /\ chkEnv = [lookup |-> <<>>, slack |-> <<>>]
    /\ chkResult = CheckStart

\* ------------------------------------------------------- Spec: Canary.run
\* The table lists get_tables may return.
AllTables == <<"synapses", "nuclei">>
TableLists == {SubSeq(AllTables, 1, k) : k \in 0..Len(AllTables)}

\* self.segmentation_source
segmentation_source == "seg"

\* f"{table_name}__{self.segmentation_source}"
SegmentationTableName(table) == <<table, "__", segmentation_source>>

\* A slip in the name choice: the is_merged test left out.
QueryTableNameIgnoringMerged(table, is_merged, annotation_table) ==
    IF annotation_table THEN SegmentationTableName(table) ELSE <<table>>

\* check_random_annotations: the name handed to query_data_and_check_roots.
\* `if not version_info["is_merged"]: if table_info.get("annotation_table")`
QueryTableName(table, is_merged, annotation_table) ==
    IF ~is_merged /\ annotation_table
    THEN SegmentationTableName(table)
    ELSE <<table>>

\* The frames a sample query returns in Spec: the table of the repository's
\* tests (id, one supervoxel column, its root id column), at most one row.
RunFrames ==
    {df \in Frames(1, ROOT_SUFFIX) :
       df.columns = <<IdColumn, Column(Prefixes[1], SUPERVOXEL_SUFFIX),
                      Column(Prefixes[1], ROOT_SUFFIX)>>}

\* loop.create_task(self.check_random_annotations(table_name, version_info))
NewTask(k, table) ==
    [iter |-> k, table |-> table, pc |-> "created", name |-> <<table>>,
     skip |-> FALSE, queried |-> FALSE, has_error |-> FALSE, notified |-> 0,
     error |-> None, engine |-> "none", database |-> <<>>,
     sample_mismatch |-> FALSE]

\* A slip in the exit test: the `iterations is not None` guard left out.
BudgetExhaustedWithoutNoneTest(budget, count) == count >= budget

\* A slip in the exit test: > for >=.
BudgetExhaustedOffByOne(budget, count) == budget # NoBudget /\ count > budget

\* the loop's exit test: iterations is not None and iteration_count >= iterations
BudgetExhausted(budget, count) == budget # NoBudget /\ count >= budget

\* The top of one pass of `while True`, up to the next await: leave the loop
\* when the budget is used up, else create one task per table and await
\* gather.
LoopTop(count) ==
    IF BudgetExhausted(iterations, count)
    THEN /\ runPc' = "done"
         /\ UNCHANGED <<background_tasks, tasks>>
    ELSE /\ count < passCap
         /\ tasks' = tasks \o [i \in 1..Len(annotation_tables') |->
                                 NewTask(count, annotation_tables'[i])]
         /\ background_tasks' =
                background_tasks \o
                    [i \in 1..Len(annotation_tables') |-> Len(tasks) + i]
         /\ runPc' = "gather"

\* A slip in the metadata lookups: the newest version instead of the pinned.
NewestMetadataVersion == LatestVersion(published)

\* get_version_metadata() without a version: the metadata of the version the
\* client is set to.
MetadataVersion == client_version

\* run() up to its first await: get_tables and get_version_metadata are
\* called once, outside any try, and either may raise.
RunStart ==
    /\ runPc = "start"
    /\ ctorPc = "constructed"
    /\ \/ /\ runPc' = "raised"
          /\ runError' \in {"get_tables", "get_version_metadata"}
          /\ UNCHANGED <<annotation_tables, version_info, background_tasks, tasks>>
       \/ /\ annotation_tables' = storeTables
          /\ version_info' \in [is_merged : BOOLEAN, version : {MetadataVersion}]
          /\ LoopTop(iteration_count)
          /\ UNCHANGED runError
    /\ UNCHANGED <<iterations, iteration_count, legacyVars, checkVars,
                   ctorPc, default_uri, datastack_name, client_version,
                   database_uri, passCap, worldVars, mainVars>>

\* The loop is alive and run is suspended: tasks may take steps.
LoopRunning == runPc \in {"gather", "sleep"}

\* check_random_annotations up to its first await: create the engine from
\* self.database_uri, read the table metadata (which may raise), choose the
\* table name, and enter query_data_and_check_roots.
TaskStart(i) ==
    /\ LoopRunning
    /\ tasks[i].pc = "created"
    /\ \/ tasks' = [tasks EXCEPT ![i].pc = "raised", ![i].error = "MetadataError",
                                 ![i].engine = "open",
                                 ![i].database = UrlDatabase(database_uri)]
       \/ \E annotation_table \in BOOLEAN :
            tasks' = [tasks EXCEPT
                ![i].pc = "query",
                ![i].engine = "open",
                ![i].database = UrlDatabase(database_uri),
                ![i].name = QueryTableName(tasks[i].table,
                                           version_info.is_merged,
                                           annotation_table),
                ![i].skip = ~version_info.is_merged /\ ~annotation_table]
    /\ UNCHANGED <<iterations, iteration_count, runPc, annotation_tables,
                   version_info, background_tasks, legacyVars, checkVars,
                   canaryVars, worldVars, mainVars>>

\* query_data_and_check_roots from `async with async_engine.begin()` to the
\* end of the block: connect, execute the sample query (an error is raised
\* again), and validate the rows unless there are none.
TaskQuery(i) ==
    /\ LoopRunning
    /\ tasks[i].pc = "query"
    /\ \/ tasks' = [tasks EXCEPT ![i].pc = "raised", ![i].error = "ConnectError"]
       \/ tasks' = [tasks EXCEPT ![i].pc = "raised", ![i].error = "QueryError",
                                 ![i].queried = TRUE]
       \/ \E df \in RunFrames :
            IF Empty(df)
            THEN tasks' = [tasks EXCEPT ![i].pc = "dispose", ![i].queried = TRUE,
                                        ![i].has_error = FALSE]
            ELSE \E env \in CheckEnvs(df) :
                   LET r == check_root_ids(df, tasks[i].name, env)
                   IN  tasks' = [tasks EXCEPT
                         ![i].pc = IF r.raised THEN "raised" ELSE "dispose",
                         ![i].error = IF r.raised THEN "NotifyError" ELSE @,
                         ![i].queried = TRUE,
                         ![i].sample_mismatch = SampleHasMismatch(df, env),
                         ![i].notified = @ + Len(r.posts),
                         ![i].has_error = r.errors_found]
    /\ UNCHANGED <<iterations, iteration_count, runPc, annotation_tables,
                   version_info, background_tasks, legacyVars, checkVars,
                   canaryVars, worldVars, mainVars>>

\* await async_engine.dispose(); return has_error
TaskDispose(i) ==
    /\ LoopRunning
    /\ tasks[i].pc = "dispose"
    /\ tasks' = [tasks EXCEPT ![i].pc = "done", ![i].engine = "disposed"]
    /\ UNCHANGED <<iterations, iteration_count, runPc, annotation_tables,
                   version_info, background_tasks, legacyVars, checkVars,
                   canaryVars, worldVars, mainVars>>

\* gather(*background_tasks) has a result: every task returned, or one has
\* raised (the exception is caught and logged; the other tasks keep running).
\* Every task created before the await has taken its first step by then: the
\* event loop runs callbacks in the order they were scheduled.
GatherReady(awaited) ==
    /\ \A j \in Range(awaited) : tasks[j].pc # "created"
    /\ \/ \A j \in Range(awaited) : tasks[j].pc = "done"
       \/ \E j \in Range(awaited) : tasks[j].pc = "raised"

\* try: await asyncio.gather(...) except Exception: log; background_tasks = []
RunGather ==
    /\ runPc = "gather"
    /\ GatherReady(background_tasks)
    /\ background_tasks' = <<>>
    /\ runPc' = "sleep"
    /\ UNCHANGED <<iterations, iteration_count, annotation_tables, version_info,
                   tasks, legacyVars, checkVars, canaryVars, worldVars, mainVars>>

\* await asyncio.sleep(self.check_interval) returns; iteration_count += 1;
\* and the next pass starts.
RunWake ==
    /\ runPc = "sleep"
    /\ iteration_count' = iteration_count + 1
    /\ UNCHANGED <<annotation_tables>>
    /\ LoopTop(iteration_count')
    /\ UNCHANGED <<iterations, version_info, legacyVars, checkVars,
                   canaryVars, worldVars, mainVars>>

\* The Canary object after __init__ found the versions listed: the client
\* and the connection target are set by _create_latest_version_db_uri.
Constructed(uri, datastack, versions) ==
    /\ ctorPc = "constructed"
    /\ default_uri = uri
    /\ datastack_name = datastack
    /\ published = versions
    /\ client_version = LatestVersion(versions)
    /\ database_uri = MatUri(uri, datastack, LatestVersion(versions))

\* run has not been called yet.
RunNotStarted ==
    /\ iteration_count = 0
    /\ runPc = "start"
    /\ runError = None
    /\ annotation_tables = <<>>
    /\ version_info = [is_merged |-> TRUE, version |-> 0]
    /\ background_tasks = <<>>
    /\ tasks = <<>>

\* The configuration of a run that leaves the versions alone.
FirstUri == <<"postgresql:", "/", "/", "db-host", "/", "annotation">>

Init ==
    /\ iterations \in (0..MaxIter) \cup {NoBudget}
    /\ passCap = MaxIter
    /\ RunNotStarted
    /\ Constructed(FirstUri, "minnie65", {MaxVersion})
    /\ storeTables \in TableLists
    /\ LegacyIdle
    /\ CheckIdle
    /\ MainIdle

Next ==
    \/ RunStart
    \/ RunGather
    \/ RunWake
    \/ \E i \in 1..Len(tasks) : TaskStart(i)
    \/ \E i \in 1..Len(tasks) : TaskQuery(i)
    \/ \E i \in 1..Len(tasks) : TaskDispose(i)

Spec == Init /\ [][Next]_vars

\* ----------------------- SpecVersions: construction, run, new versions
\* The budget of the repository's run test: canary.run(iterations=1).
TestIterations == 1

\* Canary.__init__: _create_latest_version_db_uri reads the versions listed
\* (the call may raise, and max of an empty list raises), sets the client to
\* the newest and builds the connection target for it.
Construct ==
    /\ ctorPc = "new"
    /\ \/ /\ ctorPc' = "raised"
          /\ UNCHANGED <<client_version, database_uri>>
       \/ IF published = {}
          THEN /\ ctorPc' = "raised"
               /\ UNCHANGED <<client_version, database_uri>>
          ELSE /\ client_version' = LatestVersion(published)
               /\ database_uri' = MatUri(default_uri, datastack_name,
                                         LatestVersion(published))
               /\ ctorPc' = "constructed"
    /\ UNCHANGED <<default_uri, datastack_name, runError, passCap, worldVars,
                   runVars, legacyVars, checkVars, mainVars>>

\* The resolver publishes a new materialization version, newer than every
\* version it lists.
Publish ==
    /\ ctorPc \in {"new", "constructed"}
    /\ \E v \in 1..MaxVersion :
          /\ \A w \in published : w < v
          /\ published' = published \cup {v}
    /\ UNCHANGED <<storeTables, canaryVars, runVars, legacyVars, checkVars, mainVars>>

InitVersions ==
    /\ ctorPc = "new"
    /\ default_uri \in DefaultUris
    /\ datastack_name \in DatastackNames
    /\ published \in SUBSET (1..MaxVersion)
    /\ client_version = 0
    /\ database_uri = <<>>
    /\ iterations = TestIterations
    /\ passCap = TestIterations
    /\ RunNotStarted
    /\ storeTables \in TableLists
    /\ LegacyIdle
    /\ CheckIdle
    /\ MainIdle

NextVersions ==
    \/ Construct
    \/ Publish
    \/ Next

SpecVersions == InitVersions /\ [][NextVersions]_vars

\* ------------------ SpecDrift: the unbounded loop in a changing world
\* Tables are added to the store or dropped from it while the loop runs.
StoreChange ==
    /\ LoopRunning
    /\ storeTables' \in TableLists \ {storeTables}
    /\ UNCHANGED <<published, canaryVars, runVars, legacyVars, checkVars, mainVars>>

\* main.py: Canary() then canary.run() without a budget, in a datastack with
\* one version and one table.
InitDrift ==
    /\ iterations = NoBudget
    /\ passCap = MaxIter + 1
    /\ RunNotStarted
    /\ Constructed(FirstUri, "minnie65", {1})
    /\ storeTables = SubSeq(AllTables, 1, 1)
    /\ LegacyIdle
    /\ CheckIdle
    /\ MainIdle

NextDrift ==
    \/ Publish
    \/ StoreChange
    \/ Next

SpecDrift == InitDrift /\ [][NextDrift]_vars

\* ------------------------ SpecLive: the unbounded loop, fairly scheduled
\* The tasks the passes explored can create.
TaskIds == 1..(Len(AllTables) * (MaxIter + 1))

\* main.py: Canary() then canary.run() without a budget.
InitLive ==
    /\ iterations = NoBudget
    /\ passCap = MaxIter + 1
    /\ RunNotStarted
    /\ Constructed(FirstUri, "minnie65", {1})
    /\ storeTables \in TableLists
    /\ LegacyIdle
    /\ CheckIdle
    /\ MainIdle

\* The event loop runs every ready callback, and every await of a task or
\* of run (the metadata request, the query, dispose, gather, sleep) ends.
Fairness ==
    /\ WF_vars(RunStart)
    /\ WF_vars(RunGather)
    /\ WF_vars(RunWake)
    /\ \A i \in TaskIds :
          /\ WF_vars(i <= Len(tasks) /\ TaskStart(i))
          /\ WF_vars(i <= Len(tasks) /\ TaskQuery(i))
          /\ WF_vars(i <= Len(tasks) /\ TaskDispose(i))

SpecLive == InitLive /\ [][Next]_vars /\ Fairness

\* ------------------------------ SpecMain: main.py, thread and /health
\* health_check(): 500 when canary_thread_exception is set, else 200.
health_check == IF canary_thread_exception THEN 500 ELSE 200

\* What the canary thread is doing when a request is served.
ThreadState ==
    IF mainPc = "stopped" THEN "stopped"
    ELSE IF mainPc = "except" \/ ctorPc = "raised" \/ runPc = "raised"
         THEN "crashing"
         ELSE "alive"

\* run_canary's except branch up to the flag: the exception of Canary() or
\* of canary.run() is caught and canary.send_slack_notification is called.
\* When Canary() raised, the local `canary` is unbound and the call raises
\* UnboundLocalError; send_slack_notification lets through every exception
\* of chat_postMessage but SlackApiError. Either ends the thread there.
MainExcept ==
    /\ mainPc = "running"
    /\ ctorPc = "raised" \/ runPc = "raised"
    /\ IF ctorPc = "raised"
       THEN /\ mainPc' = "stopped"
            /\ threadError' = "UnboundLocalError"
       ELSE \E outcome \in SlackOutcomes :
              IF SendRaises(outcome)
              THEN /\ mainPc' = "stopped"
                   /\ threadError' = "NotifyError"
              ELSE /\ mainPc' = "except"
                   /\ threadError' = runError
    /\ UNCHANGED <<canary_thread_exception, health, runVars, canaryVars,
                   worldVars, legacyVars, checkVars>>

\* logging.error(...); canary_thread_exception.set(); the thread ends.
MainSetFlag ==
    /\ mainPc = "except"
    /\ canary_thread_exception' = TRUE
    /\ mainPc' = "stopped"
    /\ UNCHANGED <<threadError, health, runVars, canaryVars, worldVars,
                   legacyVars, checkVars>>

\* A /health request is served by the Flask thread.
Health ==
    /\ mainPc # "idle"
    /\ health' = [status |-> health_check, thread |-> ThreadState]
    /\ UNCHANGED <<mainPc, canary_thread_exception, threadError, runVars,
                   canaryVars, worldVars, legacyVars, checkVars>>

\* main(): the thread is started and enters run_canary's try; Canary() is
\* built from the configuration and run is called without a budget, in a
\* datastack with one table.
InitMain ==
    /\ mainPc = "running"
    /\ canary_thread_exception = FALSE
    /\ threadError = None
    /\ health = [status |-> 0, thread |-> "none"]
    /\ ctorPc = "new"
    /\ default_uri = FirstUri
    /\ datastack_name = "minnie65"
    /\ published \in SUBSET (1..MaxVersion)
    /\ client_version = 0
    /\ database_uri = <<>>
    /\ iterations = NoBudget
    /\ passCap = MaxIter + 1
    /\ RunNotStarted
    /\ storeTables = SubSeq(AllTables, 1, 1)
    /\ LegacyIdle
    /\ CheckIdle

NextMain ==
    \/ Construct
    \/ MainExcept
    \/ MainSetFlag
    \/ Health
    \/ Next

SpecMain == InitMain /\ [][NextMain]_vars

\* -------------------------------------------------- SpecCheck: the function
CheckInit ==
    /\ chkPc = "ready"
    /\ chkDf \in Frames(MaxRows, ROOT_SUFFIX)
    /\ chkEnv \in CheckEnvs(chkDf)
    /\ chkResult = CheckStart
    /\ RunIdle
    /\ MainIdle
    /\ LegacyIdle

\* has_error = self.check_root_ids(df, table_name)
CheckCall ==
    /\ chkPc = "ready"
    /\ chkResult' = check_root_ids(chkDf, <<"synapses">>, chkEnv)
    /\ chkPc' = IF chkResult'.raised THEN "raised" ELSE "returned"
    /\ UNCHANGED <<chkDf, chkEnv, runVars, legacyVars, canaryVars, worldVars, mainVars>>

CheckNext == CheckCall

SpecCheck == CheckInit /\ [][CheckNext]_vars

\* ------------------------- SpecLegacy: canary.py check_random_annotations
\* The frames query_table returns: the table of test_canary.py (id and the
\* pre and post pairs), with at most limit rows.
LegacyFrames(limit) ==
    {df \in Frames(limit, LEGACY_ROOT_SUFFIX) :
       df.columns = AllColumns(LEGACY_ROOT_SUFFIX)}

\* What the pass over one table did.
LegacyPass ==
    [counted |-> FALSE, rows |-> 0, queried |-> FALSE, queryFailed |-> FALSE,
     validated |-> FALSE, posts |-> 0, lookups |-> <<>>, failed |-> <<>>,
     compared |-> <<>>]

LegacyInit ==
    /\ legPc = "start"
    /\ legN \in 1..MaxSample
    /\ legTables = <<>>
    /\ legIdx = 0
    /\ legRows = 0
    /\ legOffset = 0
    /\ legLog = <<>>
    /\ legError = None
    /\ RunIdle
    /\ MainIdle
    /\ CheckIdle

\* for table in tables: the next pass, or the end of the function
LegacyNextTable(idx, tables) ==
    /\ legIdx' = idx
    /\ legPc' = IF idx > Len(tables) THEN "returned" ELSE "count"

\* tables = self.client.materialize.get_tables()
LegacyStart ==
    /\ legPc = "start"
    /\ \/ /\ legPc' = "raised"
          /\ legError' = "TablesError"
          /\ UNCHANGED <<legTables, legIdx, legLog>>
       \/ /\ legTables' \in TableLists
          /\ legLog' = [i \in 1..Len(legTables') |-> LegacyPass]
          /\ LegacyNextTable(1, legTables')
          /\ UNCHANGED legError
    /\ UNCHANGED <<legN, legRows, legOffset, runVars, checkVars, canaryVars, worldVars, mainVars>>

\* num_rows = self.client.materialize.get_annotation_count(table)
LegacyCount ==
    /\ legPc = "count"
    /\ \/ /\ legPc' = "raised"
          /\ legError' = "CountError"
          /\ UNCHANGED <<legRows, legLog>>
       \/ /\ legRows' \in 0..MaxCount
          /\ legLog' = [legLog EXCEPT ![legIdx].counted = TRUE,
                                      ![legIdx].rows = legRows']
          /\ legPc' = "offset"
          /\ UNCHANGED legError
    /\ UNCHANGED <<legN, legTables, legIdx, legOffset, runVars, checkVars, canaryVars, worldVars, mainVars>>

\* random.randint(a, b): the integers it may return; none when b < a, where
\* it raises ValueError
RandInt(a, b) == a..b

\* offset = random.randint(0, num_rows - config.NUM_SYNAPSES)
LegacyOffset ==
    /\ legPc = "offset"
    /\ IF RandInt(0, legRows - legN) = {}
       THEN /\ legPc' = "raised"
            /\ legError' = "ValueError"
            /\ UNCHANGED legOffset
       ELSE /\ legOffset' \in RandInt(0, legRows - legN)
            /\ legPc' = "query"
            /\ UNCHANGED legError
    /\ UNCHANGED <<legN, legTables, legIdx, legRows, legLog, runVars, checkVars, canaryVars, worldVars, mainVars>>

\* df = query_table(table, offset=offset, limit=NUM_SYNAPSES) in its try
\* block, then self.check_root_ids(df): a failed query posts one notification
\* and returns from check_random_annotations.
LegacyQuery ==
    /\ legPc = "query"
    /\ \/ \E slack \in SlackOutcomes :
            /\ legLog' = [legLog EXCEPT ![legIdx].queried = TRUE,
                                        ![legIdx].queryFailed = TRUE,
                                        ![legIdx].posts = @ + 1]
            /\ legPc' = IF SendRaises(slack) THEN "raised" ELSE "returned"
            /\ legError' = IF SendRaises(slack) THEN "NotifyError" ELSE legError
            /\ UNCHANGED legIdx
       \/ \E df \in LegacyFrames(legN) : \E env \in CheckEnvs(df) :
            LET r == legacy_check_root_ids(df, env)
            IN  /\ legLog' = [legLog EXCEPT
                      ![legIdx].queried = TRUE,
                      ![legIdx].validated = ~r.raised,
                      ![legIdx].posts = @ + Len(r.posts),
                      ![legIdx].lookups = r.lookups,
                      ![legIdx].failed = r.failed,
                      ![legIdx].compared = r.compared]
                /\ IF r.raised
                   THEN /\ legPc' = "raised"
                        /\ legError' = "NotifyError"
                        /\ UNCHANGED legIdx
                   ELSE /\ LegacyNextTable(legIdx + 1, legTables)
                        /\ UNCHANGED legError
    /\ UNCHANGED <<legN, legTables, legRows, legOffset, runVars, checkVars, canaryVars, worldVars, mainVars>>

LegacyNext ==
    \/ LegacyStart
    \/ LegacyCount
    \/ LegacyOffset
    \/ LegacyQuery

SpecLegacy == LegacyInit /\ [][LegacyNext]_vars

\* ================================================================= claims
Max(a, b) == IF a >= b THEN a ELSE b

\* The supervoxel columns of df that have a same-prefixed root id column.
DerivedPairs(df, rootSuffix) ==
    {sv \in Range(ColumnsEnding(df, SUPERVOXEL_SUFFIX)) :
       RootColumnOf(StripSuffix(sv), rootSuffix) \in Range(df.columns)}

\* The resolver answered for the pair sv and row i's stored root id differs.
RowMismatched(df, env, sv, i) ==
    /\ env.lookup[sv].kind = "roots"
    /\ df.val[RootColumnOf(StripSuffix(sv), ROOT_SUFFIX)][i] # env.lookup[sv].roots[i]

\* Every derived pair was resolved and every row's stored root id is the
\* resolved one.
AllPairsMatch(df, env) ==
    \A sv \in DerivedPairs(df, ROOT_SUFFIX) :
        /\ env.lookup[sv].kind = "roots"
        /\ \A i \in 1..df.n : ~RowMismatched(df, env, sv, i)

SomePairMismatched(df, env) ==
    \E sv \in DerivedPairs(df, ROOT_SUFFIX) : \E i \in 1..df.n :
        RowMismatched(df, env, sv, i)

CheckEnded == chkPc \in {"returned", "raised"}

\* The checks of iteration k for a table that have taken their first step.
StartsOf(k, table) ==
    Cardinality({i \in 1..Len(tasks) :
                   tasks[i].iter = k /\ tasks[i].table = table
                       /\ tasks[i].pc # "created"})

\* ---- C1 (Spec).  With a budget N, whatever the tables enumerated and
\* whatever each table's check does (clean, mismatch, exception), run makes
\* exactly N passes, starts exactly one check per enumerated table in each
\* pass, can always go on until it returns, and never raises once the tables
\* are enumerated.
C1_RunPerformsBudget ==
    /\ runPc = "raised" => (tasks = <<>> /\ iteration_count = 0)
    /\ runPc = "done" =>
          /\ iteration_count = iterations
          /\ Len(tasks) = iterations * Len(annotation_tables)
          /\ \A k \in 0..(iterations - 1) : \A j \in 1..Len(annotation_tables) :
                StartsOf(k, annotation_tables[j]) = 1
    /\ (iterations # NoBudget /\ runPc \in {"start", "gather", "sleep"})
          => ENABLED Next

\* C1 witness: a run with budget 1 over two tables has returned although one
\* check raised and the other found a mismatch.
C1_Witness ==
    /\ runPc = "done" /\ iterations = 1 /\ Len(annotation_tables) = 2
    /\ \E i \in 1..Len(tasks) : tasks[i].pc = "raised"
    /\ \E i \in 1..Len(tasks) : tasks[i].pc = "done" /\ tasks[i].has_error

\* ---- C2 (SpecLegacy).  When the check of one table fails at its sample
\* query, every other enumerated table is still sampled and validated by the
\* time check_random_annotations ends.
C2_FailingTableDoesNotStarveOthers ==
    legPc \in {"returned", "raised"} =>
        \A t \in 1..Len(legLog) :
            legLog[t].queryFailed =>
                \A u \in 1..Len(legLog) : u # t => legLog[u].validated

\* ---- C3 (Spec).  Every failure of a table's sample query produces exactly
\* one notification for that table and iteration, and run does not raise.
C3_QueryFailureNotifiedOnce ==
    \A i \in 1..Len(tasks) :
        tasks[i].error = "QueryError" =>
            (tasks[i].notified = 1 /\ runPc # "raised")

\* ---- C4 (SpecCheck).  When some column pair has a row whose stored root id
\* differs from the resolved one, check_root_ids posts exactly one
\* notification and returns True, however many rows and pairs are mismatched
\* (stated here for the calls in which every post is delivered).
C4_ExactlyOneNotification ==
    (/\ CheckEnded
     /\ SomePairMismatched(chkDf, chkEnv)
     /\ \A sv \in DOMAIN chkEnv.slack : chkEnv.slack[sv] = "ok")
        => (/\ Len(chkResult.posts) = 1
            /\ chkPc = "returned"
            /\ chkResult.errors_found)

\* ---- C5 (SpecCheck).  When every derived column pair is resolved and every
\* row's stored root id equals the resolved one, check_root_ids posts no
\* notification and returns False.
C5_AllMatchingNoNotification ==
    (CheckEnded /\ AllPairsMatch(chkDf, chkEnv))
        => (/\ chkPc = "returned"
            /\ chkResult.posts = <<>>
            /\ ~chkResult.errors_found)

\* C5 witness: a frame of more than one row with both pairs, all matching,
\* has been checked.
C5_Witness ==
    /\ chkPc = "returned"
    /\ chkDf.n > 1
    /\ Cardinality(DerivedPairs(chkDf, ROOT_SUFFIX)) = 2
    /\ AllPairsMatch(chkDf, chkEnv)
    /\ Len(chkResult.compared) = 2

\* ---- C6 (SpecLegacy).  When the lookup of one column pair fails, every
\* other column pair of the same table is still looked up (stated here for
\* the pairs of the table alone).
C6_OtherPairsStillChecked ==
    \A t \in 1..Len(legLog) :
        legLog[t].failed # <<>> =>
            Range(legLog[t].failed) \cup Range(legLog[t].compared)
                = DerivedPairs([columns |-> AllColumns(LEGACY_ROOT_SUFFIX)],
                               LEGACY_ROOT_SUFFIX)

\* ---- C7 (SpecLegacy).  For every row count R >= 0 and sample size N >= 1
\* choosing the offset never raises, and the offset chosen lies in
\* [0, max(R - N, 0)].
C7_OffsetNeverRaisesAndInRange ==
    /\ legError # "ValueError"
    /\ legPc = "query" =>
          (0 <= legOffset /\ legOffset <= Max(legRows - legN, 0))

\* ---- C8 (SpecLegacy).  The check of a table counted as having zero rows
\* completes without an error, without a notification and without a
\* resolver call.
C8_EmptyTableCheckIsClean ==
    \A t \in 1..Len(legLog) :
        (/\ legLog[t].counted
         /\ legLog[t].rows = 0
         /\ (legIdx > t \/ legPc \in {"returned", "raised"}))
            => (/\ (legIdx > t \/ legPc = "returned")
                /\ legLog[t].posts = 0
                /\ legLog[t].lookups = <<>>)

\* ---- C9 (SpecCheck).  send_slack_notification never raises to its caller,
\* whatever the post call does: no check_root_ids call is ended by it.
C9_SendNeverRaises == chkPc # "raised"

\* ---- C10 (Spec).  When the pinned version is not merged and the table's
\* metadata says it carries no segmentation columns, the check issues no
\* sample query and posts no notification for it.
C10_SkippedTableNotQueried ==
    \A i \in 1..Len(tasks) :
        tasks[i].skip =>
            (/\ ~tasks[i].queried
             /\ tasks[i].notified = 0
             /\ tasks[i].pc # "dispose")

\* C11: the name a started check passes to the sample query is
\* base_name, "__", segmentation_source exactly when the pinned version is
\* not merged and the table's metadata carries the annotation_table entry
\* (in an unmerged version that is every table the check does not log as
\* skipped); in a merged version it is the unmodified base name.
C11_SuffixIffUnmergedWithSegmentation ==
    \A i \in 1..Len(tasks) :
        tasks[i].pc \in {"query", "dispose", "done"} \/ tasks[i].queried =>
            /\ version_info.is_merged => tasks[i].name = <<tasks[i].table>>
            /\ ~version_info.is_merged =>
                  /\ ~tasks[i].skip =>
                        tasks[i].name = <<tasks[i].table, "__", "seg">>
                  /\ tasks[i].skip => tasks[i].name = <<tasks[i].table>>

\* C11 witness: in one unmerged run a suffixed table and an unmodified one
\* have both been queried.
C11_Witness ==
    /\ ~version_info.is_merged
    /\ \E i, j \in 1..Len(tasks) :
          /\ tasks[i].queried /\ tasks[i].name = <<tasks[i].table, "__", "seg">>
          /\ tasks[j].queried /\ tasks[j].name = <<tasks[j].table>>

C13_OnePinnedVersion ==
    \A i \in 1..Len(tasks) :
        tasks[i].pc # "created" =>
            /\ tasks[i].database =
                   <<datastack_name, "__mat", ToString(client_version)>>
            /\ tasks[i].database =
                   <<datastack_name, "__mat", ToString(version_info.version)>>
            /\ tasks[i].database =
                   <<datastack_name, "__mat", ToString(MetadataVersion)>>

\* C13 witness: a check sampled the pinned version's database, looked its
\* roots up and found a mismatch after a newer version had been published.
C13_Witness ==
    /\ \E w \in published : w > client_version
    /\ \E i \in 1..Len(tasks) :
          /\ tasks[i].queried
          /\ tasks[i].sample_mismatch
          /\ tasks[i].database =
                 <<datastack_name, "__mat", ToString(version_info.version)>>

\* C14: when a check of the pass that just ended failed to connect to the
\* pinned database, the next pass starts with the client and the
\* connection target set to the newest version listed at that moment.
C14_FaultRepinsNewest ==
    [][(/\ runPc = "sleep"
        /\ runPc' = "gather"
        /\ \E i \in 1..Len(tasks) :
              /\ tasks[i].iter = iteration_count
              /\ tasks[i].error = "ConnectError")
       => \E v \in published :
             /\ \A w \in published : w <= v
             /\ client_version' = v
             /\ UrlDatabase(database_uri') =
                    <<datastack_name, "__mat", ToString(v)>>]_vars

\* C15: a transport error raised by get_tables does not end the run loop:
\* run has not been left by the exception.
C15_EnumerationFailureKeepsLoop ==
    runError = "get_tables" => runPc # "raised"

\* C16: the tables a pass creates checks for are the tables the store lists
\* when that pass starts: a table added since the last pass is checked, a
\* table dropped since is not.
C16_PassChecksListedTables ==
    [][runPc # "gather" /\ runPc' = "gather" =>
          {tasks'[i].table : i \in (Len(tasks) + 1)..Len(tasks')} =
              Range(storeTables)]_vars

\* C17: every get_roots failure on a column pair during a check produces an
\* error notification for that occurrence: a finished check has posted at
\* least as many error notifications as get_roots calls of it failed.
C17_LookupFailureNotified ==
    chkPc \in {"returned", "raised"} =>
        Cardinality({p \in 1..Len(chkResult.posts) :
                        chkResult.posts[p].kind = "error"}) >=
            Cardinality({k \in 1..Len(chkResult.failed) :
                            chkResult.failed[k] \in Range(chkResult.lookups)})

\* A check is over: it returned or raised.
Completed(i) == tasks[i].pc \in {"done", "raised"}

\* C18: every check of a pass is over before a check of a later pass takes
\* its first step and before run returns, so no two checks of one table
\* from different passes are in flight together.
C18_PassesDoNotOverlap ==
    /\ \A i, j \in 1..Len(tasks) :
          tasks[i].iter < tasks[j].iter /\ tasks[j].pc # "created" =>
              Completed(i)
    /\ runPc = "done" => \A i \in 1..Len(tasks) : Completed(i)

\* C19: the engine a check created is disposed when the check is over,
\* however it ends, and no engine of a pass is open when a check of a later
\* pass takes its first step.
C19_EnginesDisposed ==
    /\ \A i \in 1..Len(tasks) : Completed(i) => tasks[i].engine # "open"
    /\ \A i, j \in 1..Len(tasks) :
          tasks[i].iter < tasks[j].iter /\ tasks[j].pc # "created" =>
              tasks[i].engine # "open"

\* C20: without a budget the loop is never left, every check whose sampled
\* rows contain a mismatch posts a mismatch notification, and under fair
\* scheduling every pass explored is made and every check of it ends, also
\* when other checks of the pass raise.
C20_MismatchAlertedEveryPass ==
    /\ [](runPc # "done")
    /\ [](\A i \in 1..Len(tasks) :
            tasks[i].sample_mismatch => tasks[i].notified >= 1)
    /\ (runPc = "gather") ~>
          (/\ iteration_count = passCap - 1
           /\ \A k \in 0..(passCap - 1) :
                 \A t \in 1..Len(annotation_tables) :
                    \E i \in 1..Len(tasks) :
                       /\ tasks[i].iter = k
                       /\ tasks[i].table = annotation_tables[t]
                       /\ Completed(i))

\* C20 witness: in the second pass a table's check posts its mismatch
\* notification again while the other table's check of that pass has raised.
C20_Witness ==
    \E i, j, h \in 1..Len(tasks) :
        /\ tasks[i].iter = 1 /\ tasks[i].sample_mismatch /\ tasks[i].notified >= 1
        /\ tasks[h].iter = 0 /\ tasks[h].table = tasks[i].table
        /\ tasks[h].sample_mismatch /\ tasks[h].notified >= 1
        /\ tasks[j].iter = 1 /\ tasks[j].table # tasks[i].table
        /\ tasks[j].pc = "raised"

\* The row indices of the frame at which the stored root id of the column
\* differs from the root the resolver returned for the pair.
BadIndices(df, env, column) ==
    {i \in 1..df.n :
       df.val[column][i] # env.lookup[<<column[1], "_supervoxel_id">>].roots[i]}

\* C21: the rows of a mismatch alert for a column pair are all and only the
\* sampled rows whose stored root id differs from the resolved one, each
\* with its row id and stored root id, and the resolved values reported are
\* the resolver's outputs at exactly those rows, in the same order.
C21_AlertCarriesMismatchedRows ==
    chkPc \in {"returned", "raised"} =>
        \A p \in 1..Len(chkResult.posts) :
            LET post == chkResult.posts[p]
                bad == BadIndices(chkDf, chkEnv, post.column)
                roots == chkEnv.lookup[<<post.column[1], "_supervoxel_id">>].roots
            IN  /\ Len(post.rows) = Cardinality(bad)
                /\ Len(post.resolved) = Cardinality(bad)
                /\ \E f \in [1..Cardinality(bad) -> bad] :
                      /\ \A a, b \in 1..Cardinality(bad) : a < b => f[a] < f[b]
                      /\ \A k \in 1..Cardinality(bad) :
                            /\ post.rows[k] = <<chkDf.val[<<"id">>][f[k]],
                                                chkDf.val[post.column][f[k]]>>
                            /\ post.resolved[k] = roots[f[k]]

\* C21 witness: of two sampled rows only the second is mismatched, the
\* resolver returned different roots for the two, and the alert carries the
\* second row with the root resolved for it.
C21_Witness ==
    /\ chkPc = "returned"
    /\ chkDf.n = 2
    /\ \E p \in 1..Len(chkResult.posts) :
          LET post == chkResult.posts[p]
              roots == chkEnv.lookup[<<post.column[1], "_supervoxel_id">>].roots
          IN  /\ BadIndices(chkDf, chkEnv, post.column) = {2}
              /\ roots[1] # roots[2]
              /\ post.rows = <<<<chkDf.val[<<"id">>][2],
                                 chkDf.val[post.column][2]>>>>
              /\ post.resolved = <<roots[2]>>

\* C22: once the canary thread has stopped on an exception (of Canary(), of
\* run, or of the crash notification) the crash flag is set and a /health
\* request served from then on returns 500; a request served while the loop
\* is alive returns 200.
C22_StoppedThreadReports500 ==
    /\ mainPc = "stopped" => canary_thread_exception
    /\ health.thread = "stopped" => health.status = 500
    /\ health.thread = "alive" => health.status = 200

====
